---- MODULE Spec2Model ----
(***************************************************************************)
(* A model of the contract-processing core of the node                     *)
(* (src/src/gridcoin/contract/contract.cpp): the contract envelope and its *)
(* key-resolution policy, the dispatcher with the legacy bridging handler  *)
(* and the logging sink, and the pipeline / replay driver.                 *)
(*                                                                         *)
(* Strings are TLA+ strings; \o is the byte concatenation of std::string.  *)
(* A contract is a record with the fields of GRC::Contract.  Collaborators *)
(* whose code lives outside contract.cpp (the AppCache store, the beacon,  *)
(* poll and whitelist registries, the block finder, CKey, the wallet) are  *)
(* modelled at their interface.                                            *)
(***************************************************************************)
EXTENDS Integers, Sequences, FiniteSets, TLC

VARIABLES
    contract,   \* SpecContract: the Contract object under test
    ret,        \* SpecContract: the last member function called and its result
    h,          \* handler state: [store, beacons, polls, whitelist]
    hist,       \* SpecDispatch: the last Dispatcher call, with the state before it
    chain,      \* SpecReplay: the block index (main chain) with the blocks on disk
    fTestNet,   \* SpecReplay: the network flag
    node,       \* SpecReplay: per node, the handler state and researcher cache
    rp          \* SpecReplay: per node, the position of ReplayContracts

vars == <<contract, ret, h, hist, chain, fTestNet, node, rp>>

-----------------------------------------------------------------------------
(* Contract::Type, Contract::Action                                        *)

CURRENT_VERSION == 2

ContractTypes ==
    {"UNKNOWN", "BEACON", "CLAIM", "MESSAGE", "POLL", "PROJECT", "PROTOCOL",
     "SCRAPER", "VOTE", "OUT_OF_BOUND"}

ContractActions == {"UNKNOWN", "ADD", "REMOVE"}

Type_ToString(type) ==
    CASE type = "BEACON"   -> "beacon"
      [] type = "CLAIM"    -> "claim"
      [] type = "MESSAGE"  -> "message"
      [] type = "POLL"     -> "poll"
      [] type = "PROJECT"  -> "project"
      [] type = "PROTOCOL" -> "protocol"
      [] type = "SCRAPER"  -> "scraper"
      [] type = "VOTE"     -> "vote"
      [] OTHER             -> ""

-----------------------------------------------------------------------------
(* Payloads.  kind is the dynamic type of m_body.m_payload: "Empty"        *)
(* (EmptyPayload), "Legacy" (LegacyPayload) or "Typed" (a payload class    *)
(* defined outside this file, whose own structural check is the field wf). *)

EmptyPayload == [kind |-> "Empty", m_key |-> "", m_value |-> "", wf |-> FALSE]

LegacyPayload(key, value) ==
    [kind |-> "Legacy", m_key |-> key, m_value |-> value, wf |-> FALSE]

TypedPayload(key, value, wellformed) ==
    [kind |-> "Typed", m_key |-> key, m_value |-> value, wf |-> wellformed]

EmptyPayload_WellFormed(action) == FALSE

LegacyPayload_WellFormed(payload, action) ==
    /\ payload.m_key # ""
    /\ (action = "REMOVE" \/ payload.m_value # "")

Body_WellFormed(payload, action) ==
    CASE payload.kind = "Empty"  -> EmptyPayload_WellFormed(action)
      [] payload.kind = "Legacy" -> LegacyPayload_WellFormed(payload, action)
      [] OTHER                   -> payload.wf

-----------------------------------------------------------------------------
(* Keys and signatures.  A public key is named by its owner; "NONE" is the *)
(* empty (invalid) CPubKey.  A signature made by CKey::Sign is the record  *)
(* of the signing key, the signed hash and its DER length; NoSignature is  *)
(* the empty byte vector.                                                  *)

MessagePublicKey == "MESSAGE_KEY"

MasterPublicKey == "MASTER_KEY"

PublicKeys == {MessagePublicKey, MasterPublicKey, "USER_KEY", "NONE"}

NoSignature == [signer |-> "NONE", hash |-> "", len |-> 0]

PublicKey_Viable(public_key) == public_key # "NONE"

Signature_Viable(signature) == signature.len >= 64 /\ signature.len <= 73

CKey_SetPubKey(public_key) == public_key # "NONE"

CKey_Verify(public_key, hash, signature) ==
    /\ signature.signer # "NONE"
    /\ signature.signer = public_key
    /\ signature.hash = hash

-----------------------------------------------------------------------------
(* Contract: the authorization policy                                      *)

\* Mutant: POLL treated like PROJECT (master key for every action).
Contract_RequiresMasterKey_PollAlways(c) ==
    CASE c.m_type = "BEACON"   -> c.m_version = 1 /\ c.m_action = "REMOVE"
      [] c.m_type = "POLL"     -> TRUE
      [] c.m_type = "PROJECT"  -> TRUE
      [] c.m_type = "PROTOCOL" -> TRUE
      [] c.m_type = "SCRAPER"  -> TRUE
      [] c.m_type = "VOTE"     -> c.m_action = "REMOVE"
      [] OTHER                 -> FALSE

\* Mutant: PROJECT treated like POLL (master key for REMOVE only).
Contract_RequiresMasterKey_ProjectRemove(c) ==
    CASE c.m_type = "BEACON"   -> c.m_version = 1 /\ c.m_action = "REMOVE"
      [] c.m_type = "POLL"     -> c.m_action = "REMOVE"
      [] c.m_type = "PROJECT"  -> c.m_action = "REMOVE"
      [] c.m_type = "PROTOCOL" -> TRUE
      [] c.m_type = "SCRAPER"  -> TRUE
      [] c.m_type = "VOTE"     -> c.m_action = "REMOVE"
      [] OTHER                 -> FALSE

\* Mutant: the version test of the BEACON case dropped.
Contract_RequiresMasterKey_BeaconAnyVersion(c) ==
    CASE c.m_type = "BEACON"   -> c.m_action = "REMOVE"
      [] c.m_type = "POLL"     -> c.m_action = "REMOVE"
      [] c.m_type = "PROJECT"  -> TRUE
      [] c.m_type = "PROTOCOL" -> TRUE
      [] c.m_type = "SCRAPER"  -> TRUE
      [] c.m_type = "VOTE"     -> c.m_action = "REMOVE"
      [] OTHER                 -> FALSE

Contract_RequiresMasterKey(c) ==
    CASE c.m_type = "BEACON"   -> c.m_version = 1 /\ c.m_action = "REMOVE"
      [] c.m_type = "POLL"     -> c.m_action = "REMOVE"
      [] c.m_type = "PROJECT"  -> TRUE
      [] c.m_type = "PROTOCOL" -> TRUE
      [] c.m_type = "SCRAPER"  -> TRUE
      [] c.m_type = "VOTE"     -> c.m_action = "REMOVE"
      [] OTHER                 -> FALSE

\* Mutant: the BEACON case dropped (a self-signed beacon advertisement).
Contract_RequiresMessageKey_NoBeacon(c) ==
    CASE c.m_type = "POLL"   -> c.m_action = "ADD"
      [] c.m_type = "VOTE"   -> c.m_action = "ADD"
      [] OTHER               -> FALSE

\* Mutant: the message key authorizes every BEACON action.
Contract_RequiresMessageKey_BeaconAlways(c) ==
    CASE c.m_type = "BEACON" -> TRUE
      [] c.m_type = "POLL"   -> c.m_action = "ADD"
      [] c.m_type = "VOTE"   -> c.m_action = "ADD"
      [] OTHER               -> FALSE

Contract_RequiresMessageKey(c) ==
    CASE c.m_type = "BEACON" -> c.m_action = "ADD"
      [] c.m_type = "POLL"   -> c.m_action = "ADD"
      [] c.m_type = "VOTE"   -> c.m_action = "ADD"
      [] OTHER               -> FALSE

Contract_RequiresSpecialKey(c) ==
    Contract_RequiresMessageKey(c) \/ Contract_RequiresMasterKey(c)

\* Mutant: the embedded key is used whatever the policy says.
Contract_ResolvePublicKey_Embedded(c) == c.m_public_key

Contract_ResolvePublicKey(c) ==
    IF Contract_RequiresMessageKey(c) THEN MessagePublicKey
    ELSE IF Contract_RequiresMasterKey(c) THEN MasterPublicKey
    ELSE c.m_public_key

-----------------------------------------------------------------------------
(* Contract: hashing, structural checks, signing                           *)

\* LegacyPayload::SerializationOp: the value is not written for REMOVE.
LegacyPayload_Serialize(payload, action) ==
    payload.m_key \o (IF action # "REMOVE" THEN "," \o payload.m_value ELSE "")

\* The bytes SerializeHash() hashes for a version 2+ envelope: version, type
\* tag, action tag and payload.  The signature is not part of the bytes it
\* signs.
Contract_Serialize(c) ==
    "<v" \o ToString(c.m_version) \o ">" \o c.m_type \o "," \o c.m_action \o ","
        \o (IF c.m_body.kind = "Legacy"
            THEN LegacyPayload_Serialize(c.m_body, c.m_action)
            ELSE c.m_body.kind \o ":" \o c.m_body.m_key \o "," \o c.m_body.m_value)

\* Mutant: the version 1 hash covers the action too.
Contract_GetHash_WithAction(c) ==
    IF c.m_version > 1
    THEN Contract_Serialize(c)
    ELSE Type_ToString(c.m_type) \o c.m_action \o c.m_body.m_key \o c.m_body.m_value

\* Hash() is collision free: a hash is named by the bytes hashed.
Contract_GetHash(c) ==
    IF c.m_version > 1
    THEN Contract_Serialize(c)
    ELSE Type_ToString(c.m_type) \o c.m_body.m_key \o c.m_body.m_value

\* Mutant: the type is not checked.
Contract_WellFormed_AnyType(c) ==
    /\ c.m_version > 0 /\ c.m_version <= CURRENT_VERSION
    /\ c.m_action # "UNKNOWN"
    /\ Body_WellFormed(c.m_body, c.m_action)
    /\ (c.m_version > 1 \/ Signature_Viable(c.m_signature))
    /\ (c.m_version > 1
        \/ (Contract_RequiresSpecialKey(c) \/ PublicKey_Viable(c.m_public_key)))

Contract_WellFormed(c) ==
    /\ c.m_version > 0 /\ c.m_version <= CURRENT_VERSION
    /\ c.m_type # "UNKNOWN"
    /\ c.m_action # "UNKNOWN"
    /\ Body_WellFormed(c.m_body, c.m_action)
    /\ (c.m_version > 1 \/ Signature_Viable(c.m_signature))
    /\ (c.m_version > 1
        \/ (Contract_RequiresSpecialKey(c) \/ PublicKey_Viable(c.m_public_key)))

Contract_VerifySignature(c) ==
    IF ~CKey_SetPubKey(Contract_ResolvePublicKey(c))
    THEN FALSE
    ELSE CKey_Verify(Contract_ResolvePublicKey(c), Contract_GetHash(c),
                     c.m_signature)

\* Mutant: the signature of a version 1 contract is not verified.
Contract_Validate_Unverified(c) == Contract_WellFormed(c)

Contract_Validate(c) ==
    /\ Contract_WellFormed(c)
    /\ (c.m_version > 1 \/ Contract_VerifySignature(c))

\* CKey::Sign(hash, output): a DER signature of the hash by the private key
\* that belongs to public key `key`, `len` bytes long.
CKey_Sign(key, hash, len) == [signer |-> key, hash |-> hash, len |-> len]

\* Mutant: the signer's public key is embedded whatever the policy says.
Contract_Sign_AlwaysEmbeds(c, key, ok, len) ==
    IF ~ok
    THEN c
    ELSE [c EXCEPT
            !.m_signature = CKey_Sign(key, Contract_GetHash(c), len),
            !.m_public_key = key]

\* Contract::Sign(private_key); ok is the result of CKey::Sign.
Contract_Sign(c, key, ok, len) ==
    IF ~ok
    THEN c
    ELSE [c EXCEPT
            !.m_signature = CKey_Sign(key, Contract_GetHash(c), len),
            !.m_public_key = IF ~Contract_RequiresSpecialKey(c)
                             THEN key ELSE c.m_public_key]

\* Contract::Contract(version, type, action, body, signature, public_key)
Contract(version, type, action, body, signature, public_key) ==
    [m_version |-> version, m_type |-> type, m_action |-> action,
     m_body |-> body, m_signature |-> signature, m_public_key |-> public_key]

-----------------------------------------------------------------------------
(* The AppCache: a section-keyed store.  A section is the set of its       *)
(* entries [key, value, timestamp], at most one per key.                    *)

Sections == {"PROTOCOL", "SCRAPER"}

StringToSection(name) ==
    CASE name = "protocol" -> "PROTOCOL"
      [] name = "scraper"  -> "SCRAPER"

ClearCache(store, section) == [store EXCEPT ![section] = {}]

WriteCache(store, section, key, value, locktime) ==
    [store EXCEPT ![section] =
        {e \in @ : e.key # key}
            \cup {[key |-> key, value |-> value, timestamp |-> locktime]}]

DeleteCache(store, section, key) ==
    [store EXCEPT ![section] = {e \in @ : e.key # key}]

EmptyStore == [section \in Sections |-> {}]

-----------------------------------------------------------------------------
(* Handlers.  The handler state hs is [store, beacons, polls, whitelist]:  *)
(* the AppCache sections behind the legacy bridging handler, and for each  *)
(* registry defined outside this file the calls it received since its     *)
(* last Reset.  A context ctx is [c, nTime, pindex]: the contract, the time *)
(* of the transaction that carries it and the height of the block index.   *)

ContractContext(c, nTime, pindex) == [c |-> c, nTime |-> nTime, pindex |-> pindex]

EmptyHandlers ==
    [store |-> EmptyStore, beacons |-> <<>>, polls |-> <<>>, whitelist |-> <<>>]

\* Contract::Body::ConvertFromLegacy.  CLAIM, MESSAGE and the out-of-bound
\* sentinel hit assert(false): no case.
Body_ConvertFromLegacy(payload, type) ==
    CASE type = "UNKNOWN"                   -> EmptyPayload
      [] type \in {"PROTOCOL", "SCRAPER"}   -> payload
      [] type \in {"BEACON", "POLL", "PROJECT", "VOTE"} ->
            TypedPayload(payload.m_key, payload.m_value, TRUE)

\* Contract::SharePayload
Contract_SharePayload(c) ==
    IF c.m_version > 1 THEN c.m_body
    ELSE Body_ConvertFromLegacy(c.m_body, c.m_type)

Registry_Call(hs, registry, op, arg) ==
    [hs EXCEPT ![registry] = Append(@, [op |-> op, arg |-> arg])]

Registry_Reset(hs, registry) == [hs EXCEPT ![registry] = <<>>]

\* Mutant: the SCRAPER section is not cleared.
AppCacheContractHandler_Reset_ProtocolOnly(hs) ==
    [hs EXCEPT !.store = ClearCache(@, "PROTOCOL")]

AppCacheContractHandler_Reset(hs) ==
    [hs EXCEPT !.store = ClearCache(ClearCache(@, "PROTOCOL"), "SCRAPER")]

\* Mutant: every entry is written to the PROTOCOL section.
AppCacheContractHandler_Add_Protocol(hs, ctx) ==
    LET payload == Contract_SharePayload(ctx.c)
    IN  [hs EXCEPT !.store =
            WriteCache(@, "PROTOCOL", payload.m_key, payload.m_value, ctx.nTime)]

AppCacheContractHandler_Add(hs, ctx) ==
    LET payload == Contract_SharePayload(ctx.c)
    IN  [hs EXCEPT !.store =
            WriteCache(@, StringToSection(Type_ToString(ctx.c.m_type)),
                       payload.m_key, payload.m_value, ctx.nTime)]

AppCacheContractHandler_Delete(hs, ctx) ==
    LET payload == Contract_SharePayload(ctx.c)
    IN  [hs EXCEPT !.store =
            DeleteCache(@, StringToSection(Type_ToString(ctx.c.m_type)),
                        payload.m_key)]

UnknownContractHandler_Add(hs, ctx) == hs

UnknownContractHandler_Delete(hs, ctx) == hs

UnknownContractHandler_Revert(hs, ctx) == hs

\* Mutant: CLAIM contracts are routed to the beacon registry.
Dispatcher_GetHandler_ClaimToBeacons(type) ==
    CASE type = "BEACON"   -> "beacons"
      [] type = "CLAIM"    -> "beacons"
      [] type = "POLL"     -> "polls"
      [] type = "PROJECT"  -> "whitelist"
      [] type = "PROTOCOL" -> "store"
      [] type = "SCRAPER"  -> "store"
      [] type = "VOTE"     -> "polls"
      [] OTHER             -> "unknown"

\* Mutant: VOTE contracts are routed to the beacon registry.
Dispatcher_GetHandler_VoteToBeacons(type) ==
    CASE type = "BEACON"   -> "beacons"
      [] type = "POLL"     -> "polls"
      [] type = "PROJECT"  -> "whitelist"
      [] type = "PROTOCOL" -> "store"
      [] type = "SCRAPER"  -> "store"
      [] type = "VOTE"     -> "beacons"
      [] OTHER             -> "unknown"

\* Dispatcher::GetHandler: the handler is named by the field of hs it owns.
Dispatcher_GetHandler(type) ==
    CASE type = "BEACON"   -> "beacons"
      [] type = "POLL"     -> "polls"
      [] type = "PROJECT"  -> "whitelist"
      [] type = "PROTOCOL" -> "store"
      [] type = "SCRAPER"  -> "store"
      [] type = "VOTE"     -> "polls"
      [] OTHER             -> "unknown"

Handler_Add(hs, handler, ctx) ==
    CASE handler = "store"   -> AppCacheContractHandler_Add(hs, ctx)
      [] handler = "unknown" -> UnknownContractHandler_Add(hs, ctx)
      [] OTHER               -> Registry_Call(hs, handler, "Add", ctx)

Handler_Delete(hs, handler, ctx) ==
    CASE handler = "store"   -> AppCacheContractHandler_Delete(hs, ctx)
      [] handler = "unknown" -> UnknownContractHandler_Delete(hs, ctx)
      [] OTHER               -> Registry_Call(hs, handler, "Delete", ctx)

\* Mutant: the undo repeats the action instead of reversing it.
IContractHandler_Revert_Repeat(hs, handler, ctx) ==
    IF ctx.c.m_action = "ADD" THEN Handler_Add(hs, handler, ctx)
    ELSE IF ctx.c.m_action = "REMOVE" THEN Handler_Delete(hs, handler, ctx)
    ELSE hs

\* IContractHandler::Revert, the default a handler inherits.
IContractHandler_Revert(hs, handler, ctx) ==
    IF ctx.c.m_action = "ADD" THEN Handler_Delete(hs, handler, ctx)
    ELSE IF ctx.c.m_action = "REMOVE" THEN Handler_Add(hs, handler, ctx)
    ELSE hs

Handler_Revert(hs, handler, ctx) ==
    CASE handler = "store"   -> IContractHandler_Revert(hs, handler, ctx)
      [] handler = "unknown" -> UnknownContractHandler_Revert(hs, ctx)
      [] OTHER               -> Registry_Call(hs, handler, "Revert", ctx)

Dispatcher_ResetHandlers(hs) ==
    AppCacheContractHandler_Reset(
        Registry_Reset(Registry_Reset(Registry_Reset(hs, "beacons"), "polls"),
                       "whitelist"))

\* Mutant: every action but ADD is handled as a deletion.
Dispatcher_Apply_DefaultDelete(hs, ctx) ==
    IF ctx.c.m_action = "ADD"
    THEN Handler_Add(hs, Dispatcher_GetHandler(ctx.c.m_type), ctx)
    ELSE Handler_Delete(hs, Dispatcher_GetHandler(ctx.c.m_type), ctx)

Dispatcher_Apply(hs, ctx) ==
    IF ctx.c.m_action = "ADD"
    THEN Handler_Add(hs, Dispatcher_GetHandler(ctx.c.m_type), ctx)
    ELSE IF ctx.c.m_action = "REMOVE"
    THEN Handler_Delete(hs, Dispatcher_GetHandler(ctx.c.m_type), ctx)
    ELSE hs

Dispatcher_Revert(hs, ctx) ==
    Handler_Revert(hs, Dispatcher_GetHandler(ctx.c.m_type), ctx)

\* Validate(contract, tx) of a handler: the legacy bridging handler and the
\* sink accept everything, a registry gives its own answer.
Handler_Validate(handler, c, answer) ==
    CASE handler = "store"   -> TRUE
      [] handler = "unknown" -> TRUE
      [] OTHER               -> answer

\* Dispatcher::Validate: the handler asked and the result.
Dispatcher_Validate(c, answer) ==
    [handler |-> Dispatcher_GetHandler(c.m_type),
     ok |-> Handler_Validate(Dispatcher_GetHandler(c.m_type), c, answer)]

-----------------------------------------------------------------------------
(* SpecContract: one Contract object and the member functions called on it *)

MaxVersion == 3

\* DER lengths of the signatures CKey::Sign makes (68 to 72 bytes on
\* mainnet, see Contract::Signature::Viable).
DerLengths == {68, 71, 72}

SigningKeys == {MessagePublicKey, MasterPublicKey, "USER_KEY"}

LegacyKeys == {"", "k"}

LegacyValues == {"", "v"}

\* Signatures a contract can arrive with, before any Sign(): none, bytes of
\* a viable or of a short length that no key made.
ForeignSignatures ==
    {NoSignature,
     [signer |-> "NONE", hash |-> "junk", len |-> 70],
     [signer |-> "NONE", hash |-> "junk", len |-> 10]}

\* Version 0 and 1 contracts hold a LegacyPayload; version 2+ contracts hold any
\* payload class (MakeLegacyContract builds a current-version contract with
\* a LegacyPayload of any type, Contract() one with an EmptyPayload).
BodiesOf(version) ==
    {LegacyPayload(k, v) : k \in LegacyKeys, v \in LegacyValues}
        \cup (IF version > 1
              THEN {EmptyPayload} \cup {TypedPayload("k", "v", w) : w \in BOOLEAN}
              ELSE {})

\* The variables a specification does not use keep this value.
Idle == "idle"

ContractInit ==
    /\ h = Idle /\ hist = Idle /\ chain = Idle /\ fTestNet = Idle
    /\ node = Idle /\ rp = Idle
    /\ \E version \in 0..MaxVersion, type \in ContractTypes,
          action \in ContractActions, signature \in ForeignSignatures,
          public_key \in {"NONE", "USER_KEY"} :
          \E body \in BodiesOf(version) :
             contract = Contract(version, type, action, body, signature, public_key)
    /\ ret = [op |-> "Contract", ok |-> TRUE, key |-> "NONE"]

Sign ==
    \E key \in SigningKeys, ok \in BOOLEAN, len \in DerLengths :
        /\ contract' = Contract_Sign(contract, key, ok, len)
        /\ ret' = [op |-> "Sign", ok |-> ok, key |-> key]
        /\ UNCHANGED <<h, hist, chain, fTestNet, node, rp>>

WellFormed ==
    /\ ret' = [op |-> "WellFormed", ok |-> Contract_WellFormed(contract),
               key |-> "NONE"]
    /\ UNCHANGED <<contract, h, hist, chain, fTestNet, node, rp>>

Validate ==
    /\ ret' = [op |-> "Validate", ok |-> Contract_Validate(contract), key |-> "NONE"]
    /\ UNCHANGED <<contract, h, hist, chain, fTestNet, node, rp>>

VerifySignature ==
    /\ ret' = [op |-> "VerifySignature", ok |-> Contract_VerifySignature(contract),
               key |-> "NONE"]
    /\ UNCHANGED <<contract, h, hist, chain, fTestNet, node, rp>>

ResolvePublicKey ==
    /\ ret' = [op |-> "ResolvePublicKey", ok |-> TRUE,
               key |-> Contract_ResolvePublicKey(contract)]
    /\ UNCHANGED <<contract, h, hist, chain, fTestNet, node, rp>>

ContractNext ==
    Sign \/ WellFormed \/ Validate \/ VerifySignature \/ ResolvePublicKey

SpecContract == ContractInit /\ [][ContractNext]_vars

-----------------------------------------------------------------------------
(* SpecDispatch: the global dispatcher g_dispatcher, called with contract  *)
(* contexts in any order, from any prior content of the store.  hist keeps *)
(* the last call: op and ctx, the handler state before it, and, when the   *)
(* call is a Revert that directly follows the Apply of the same context    *)
(* (paired), the handler state before that Apply (pre).                    *)

MaxCalls == 1

TxTimes == {1, 2}

\* The contracts dispatched: PROTOCOL contracts of both versions and SCRAPER
\* contracts of the current version with every action, and contracts of the
\* registries and of the unrouted types.
DispatchContracts ==
    {Contract(vt[1], vt[2], action, LegacyPayload("k", "v"), NoSignature, "NONE") :
        vt \in {<<1, "PROTOCOL">>, <<CURRENT_VERSION, "PROTOCOL">>,
                <<CURRENT_VERSION, "SCRAPER">>},
        action \in ContractActions}
    \cup
    {Contract(CURRENT_VERSION, ta[1], ta[2], TypedPayload("k", "v", TRUE),
              NoSignature, "NONE") :
        ta \in ({"BEACON"} \X ContractActions)
                 \cup {<<"VOTE", "ADD">>, <<"PROJECT", "REMOVE">>,
                       <<"MESSAGE", "ADD">>, <<"CLAIM", "ADD">>,
                       <<"UNKNOWN", "ADD">>, <<"OUT_OF_BOUND", "REMOVE">>}}

DispatchContexts ==
    {ContractContext(c, nTime, 0) :
        c \in {d \in DispatchContracts : d.m_type \in {"PROTOCOL", "SCRAPER"}},
        nTime \in TxTimes}
    \cup
    {ContractContext(c, 1, 0) :
        c \in {d \in DispatchContracts : d.m_type \notin {"PROTOCOL", "SCRAPER"}}}

\* What a section may hold before the calls: nothing, or an entry for key
\* "k" with another or with the same value.
PriorSections ==
    {{}, {[key |-> "k", value |-> "w", timestamp |-> 1]},
         {[key |-> "k", value |-> "v", timestamp |-> 1]}}

RegistryCalls(hs) == Len(hs.beacons) + Len(hs.polls) + Len(hs.whitelist)

DispatchInit ==
    /\ \E protocol \in PriorSections, scraper \in PriorSections :
          h = [EmptyHandlers EXCEPT
                  !.store = [section \in Sections |->
                                IF section = "PROTOCOL" THEN protocol ELSE scraper]]
    /\ hist = [op |-> "none", ctx |-> "none", before |-> h, pre |-> h,
               paired |-> FALSE, ret |-> "none"]
    /\ contract = Idle /\ ret = Idle /\ chain = Idle /\ fTestNet = Idle
    /\ node = Idle /\ rp = Idle

Apply ==
    \E ctx \in DispatchContexts :
        /\ Dispatcher_GetHandler(ctx.c.m_type) \in {"store", "unknown"}
              \/ RegistryCalls(h) < MaxCalls
        /\ h' = Dispatcher_Apply(h, ctx)
        /\ hist' = [op |-> "Apply", ctx |-> ctx, before |-> h, pre |-> h,
                    paired |-> FALSE, ret |-> "none"]
        /\ UNCHANGED <<contract, ret, chain, fTestNet, node, rp>>

Revert ==
    \E ctx \in DispatchContexts :
        /\ Dispatcher_GetHandler(ctx.c.m_type) \in {"store", "unknown"}
              \/ RegistryCalls(h) < MaxCalls
        /\ h' = Dispatcher_Revert(h, ctx)
        /\ hist' = IF hist.op = "Apply" /\ hist.ctx = ctx
                   THEN [op |-> "Revert", ctx |-> ctx, before |-> h,
                         pre |-> hist.before, paired |-> TRUE, ret |-> "none"]
                   ELSE [op |-> "Revert", ctx |-> ctx, before |-> h, pre |-> h,
                         paired |-> FALSE, ret |-> "none"]
        /\ UNCHANGED <<contract, ret, chain, fTestNet, node, rp>>

\* Dispatcher::Validate(contract, tx); hist.ret is what it returns, with the
\* handler that was asked.
DispatcherValidate ==
    \E c \in {d \in DispatchContracts : d.m_version = CURRENT_VERSION} :
        \E answer \in IF Dispatcher_GetHandler(c.m_type) \in {"store", "unknown"}
                      THEN {TRUE} ELSE BOOLEAN :
            /\ hist' = [op |-> "Validate", ctx |-> ContractContext(c, 1, 0),
                        before |-> h, pre |-> h, paired |-> FALSE,
                        ret |-> Dispatcher_Validate(c, answer)]
            /\ UNCHANGED <<contract, ret, h, chain, fTestNet, node, rp>>

DispatchNext == Apply \/ Revert

SpecDispatch == DispatchInit /\ [][DispatchNext]_vars

\* SpecRouting: the dispatcher called with Apply, Revert and Validate, from a
\* store that holds an entry of the PROTOCOL section.
RoutingInit ==
    /\ \E scraper \in {{}, {[key |-> "k", value |-> "v", timestamp |-> 1]}} :
          h = [EmptyHandlers EXCEPT
                  !.store = [section \in Sections |->
                                IF section = "PROTOCOL"
                                THEN {[key |-> "k", value |-> "w", timestamp |-> 1]}
                                ELSE scraper]]
    /\ hist = [op |-> "none", ctx |-> "none", before |-> h, pre |-> h,
               paired |-> FALSE, ret |-> "none"]
    /\ contract = Idle /\ ret = Idle /\ chain = Idle /\ fTestNet = Idle
    /\ node = Idle /\ rp = Idle

RoutingNext == Apply \/ Revert \/ DispatcherValidate

SpecRouting == RoutingInit /\ [][RoutingNext]_vars

-----------------------------------------------------------------------------
(* The pipeline driver: ApplyContracts.  A transaction is [nTime,          *)
(* contracts]; a block (CBlock) is [hashPrevBlock, nTime, vtx, verified],  *)
(* verified being the verified beacons of its superblock.  The state the   *)
(* driver works on is st = [h, researcher, found, calls]: the handler      *)
(* state, the researcher cache [dirty, refreshes], out_found_contract and  *)
(* the calls of g_dispatcher made so far.                                  *)

Researcher_MarkDirty(researcher) == [researcher EXCEPT !.dirty = TRUE]

Researcher_Refresh(researcher) ==
    [dirty |-> FALSE, refreshes |-> researcher.refreshes + 1]

\* Contract::Body::AssumeLegacy and IContractPayload::LegacyKeyString
Body_AssumeLegacy(payload) == payload

Payload_LegacyKeyString(payload) ==
    IF payload.kind = "Empty" THEN "" ELSE payload.m_key

\* Mutant: MESSAGE contracts are the only ones tracked in the block index.
FoundContract_OnlyMessage(found, c) == found \/ c.m_type = "MESSAGE"

\* Mutant: every contract is found, MESSAGE contracts too.
FoundContract_Always(found, c) == TRUE

\* out_found_contract |= contract.m_type != ContractType::MESSAGE
FoundContract(found, c) == found \/ c.m_type # "MESSAGE"

\* Mutant: no contract is skipped.
SkipsContract_Never(c) == FALSE

\* if (contract.m_version == 1 && !contract.Validate()) continue;
SkipsContract(c) == c.m_version = 1 /\ ~Contract_Validate(c)

\* Mutant: the key is looked at whatever the type of the contract is.
MarksDirty_AnyType(c) ==
    Payload_LegacyKeyString(Body_AssumeLegacy(c.m_body))
        \in {"REQUIRE_TEAM_WHITELIST_MEMBERSHIP", "TEAM_WHITELIST"}

\* The test that guards Researcher::MarkDirty().
MarksDirty(c) ==
    /\ c.m_type = "PROTOCOL"
    /\ Payload_LegacyKeyString(Body_AssumeLegacy(c.m_body))
           \in {"REQUIRE_TEAM_WHITELIST_MEMBERSHIP", "TEAM_WHITELIST"}

\* g_dispatcher.Apply({ contract, tx, pindex }) and g_dispatcher.Revert(...)
DispatcherCall(op, ctx) == [op |-> op, ctx |-> ctx]

\* Mutant: a contract that marks the researcher cache dirty is not
\* dispatched.
ApplyContract_DirtyOrDispatch(st, c, nTime, pindex) ==
    IF SkipsContract(c)
    THEN st
    ELSE IF MarksDirty(c)
    THEN [st EXCEPT !.researcher = Researcher_MarkDirty(@),
                    !.found = FoundContract(@, c)]
    ELSE [st EXCEPT
            !.h = Dispatcher_Apply(@, ContractContext(c, nTime, pindex)),
            !.found = FoundContract(@, c),
            !.calls = Append(@, DispatcherCall("Apply",
                                    ContractContext(c, nTime, pindex)))]

\* The body of the loop of ApplyContracts(tx, pindex, out_found_contract).
ApplyContract(st, c, nTime, pindex) ==
    IF SkipsContract(c)
    THEN st
    ELSE [st EXCEPT
            !.researcher = IF MarksDirty(c) THEN Researcher_MarkDirty(@) ELSE @,
            !.h = Dispatcher_Apply(@, ContractContext(c, nTime, pindex)),
            !.found = FoundContract(@, c),
            !.calls = Append(@, DispatcherCall("Apply",
                                    ContractContext(c, nTime, pindex)))]

RECURSIVE ApplyContractsLoop(_, _, _, _)
ApplyContractsLoop(st, contracts, nTime, pindex) ==
    IF contracts = <<>> THEN st
    ELSE ApplyContractsLoop(ApplyContract(st, Head(contracts), nTime, pindex),
                            Tail(contracts), nTime, pindex)

\* GRC::ApplyContracts(tx, pindex, out_found_contract)
ApplyContracts_Tx(st, tx, pindex) ==
    ApplyContractsLoop(st, tx.contracts, tx.nTime, pindex)

RECURSIVE ApplyTransactions(_, _, _)
ApplyTransactions(st, vtx, pindex) ==
    IF vtx = <<>> THEN st
    ELSE ApplyTransactions(ApplyContracts_Tx(st, Head(vtx), pindex), Tail(vtx),
                           pindex)

\* GRC::ApplyContracts(block, pindex, out_found_contract): the coinbase and
\* the coinstake are skipped (every block holds both).
ApplyContracts_Block(st, block, pindex) ==
    ApplyTransactions([st EXCEPT !.found = FALSE],
                      SubSeq(block.vtx, 3, Len(block.vtx)), pindex)

\* Mutant: the whole of Validate() guards the undo, as in ApplyContracts.
SkipsRevert_Validate(c) == c.m_version = 1 /\ ~Contract_Validate(c)

\* if (contract.m_version == 1 && !contract.VerifySignature()) continue;
SkipsRevert(c) == c.m_version = 1 /\ ~Contract_VerifySignature(c)

\* The body of the loop of RevertContracts(tx, pindex).
RevertContract(st, c, nTime, pindex) ==
    IF SkipsRevert(c)
    THEN st
    ELSE [st EXCEPT
            !.h = Dispatcher_Revert(@, ContractContext(c, nTime, pindex)),
            !.calls = Append(@, DispatcherCall("Revert",
                                    ContractContext(c, nTime, pindex)))]

RECURSIVE RevertContractsLoop(_, _, _, _)
RevertContractsLoop(st, contracts, nTime, pindex) ==
    IF contracts = <<>> THEN st
    ELSE RevertContractsLoop(RevertContract(st, Head(contracts), nTime, pindex),
                             Tail(contracts), nTime, pindex)

\* GRC::RevertContracts(tx, pindex)
RevertContracts_Tx(st, tx, pindex) ==
    RevertContractsLoop(st, tx.contracts, tx.nTime, pindex)

-----------------------------------------------------------------------------
(* The block index and the blocks on disk.  An index entry is [nHeight,    *)
(* nTime, nIsContract, nIsSuperBlock, nVersion, disk, data]: data is the   *)
(* block stored for it and disk says what reading it gives: "ok", "missing" *)
(* (the file cannot be opened: the block stays null) or "corrupt" (the     *)
(* block is deserialized and then fails its check).                        *)

Beacon_MAX_AGE == 15552000

MaxBlocks == 3

\* Mutant: the two activation heights swapped.
ActivationHeight_Swapped(testnet) == IF testnet THEN 164618 ELSE 1

\* pindex->nHeight < (fTestNet ? 1 : 164618)
ActivationHeight(testnet) == IF testnet THEN 1 ELSE 164618

BelowActivation(nHeight, testnet) == nHeight < ActivationHeight(testnet)

\* Block hashes are distinct and not null: the hash of the block at a height
\* of the main chain is named by the height.
GetBlockHash(nHeight) == nHeight + 1

NullBlock == [hashPrevBlock |-> 0, nTime |-> 0, vtx |-> <<>>, verified |-> {}]

cProtocolAdd ==
    Contract(CURRENT_VERSION, "PROTOCOL", "ADD", LegacyPayload("k", "v"),
             NoSignature, "NONE")

cProtocolRemove ==
    Contract(CURRENT_VERSION, "PROTOCOL", "REMOVE", LegacyPayload("k", ""),
             NoSignature, "NONE")

cScraperAdd ==
    Contract_Sign(Contract(1, "SCRAPER", "ADD", LegacyPayload("s", "v"),
                           NoSignature, "NONE"), MasterPublicKey, TRUE, 71)

cScraperForged ==
    Contract_Sign(Contract(1, "SCRAPER", "ADD", LegacyPayload("s", "w"),
                           NoSignature, "NONE"), "USER_KEY", TRUE, 71)

cBeaconAdd ==
    Contract(CURRENT_VERSION, "BEACON", "ADD", TypedPayload("cpid", "key", TRUE),
             NoSignature, "NONE")

cMessage ==
    Contract(CURRENT_VERSION, "MESSAGE", "ADD", TypedPayload("", "hello", TRUE),
             NoSignature, "NONE")

cTeamWhitelist ==
    Contract(CURRENT_VERSION, "PROTOCOL", "ADD",
             LegacyPayload("TEAM_WHITELIST", "t"), NoSignature, "NONE")

cClaim ==
    Contract(CURRENT_VERSION, "CLAIM", "ADD", TypedPayload("", "", TRUE),
             NoSignature, "NONE")

\* The blocks a chain is made of: the contracts of the transaction that
\* follows the coinbase and the coinstake, the superblock flag, the block
\* version and the state of the block file.
BlockTemplates ==
    {[contracts |-> <<cProtocolAdd>>, sb |-> 1, ver |-> 11, disk |-> "ok"],
     [contracts |-> <<cProtocolRemove, cScraperAdd, cScraperForged>>,
      sb |-> 0, ver |-> 11, disk |-> "ok"],
     [contracts |-> <<cMessage, cScraperForged>>, sb |-> 1, ver |-> 11, disk |-> "ok"],
     [contracts |-> <<cBeaconAdd, cTeamWhitelist>>, sb |-> 1, ver |-> 10, disk |-> "ok"],
     [contracts |-> <<cScraperAdd>>, sb |-> 1, ver |-> 11, disk |-> "missing"],
     [contracts |-> <<>>, sb |-> 1, ver |-> 11, disk |-> "corrupt"]}

\* The network and the height of the first block of the modelled chain.
Networks ==
    {[testnet |-> TRUE, first |-> 0], [testnet |-> TRUE, first |-> 1],
     [testnet |-> FALSE, first |-> 164617], [testnet |-> FALSE, first |-> 164618]}

\* Seconds between two blocks: a short spacing, and one that puts the third
\* block more than Beacon::MAX_AGE after the first.
BlockSpacings == {16, 10000000}

BlockData(template, nHeight, nTime) ==
    [hashPrevBlock |-> IF nHeight = 0 THEN 0 ELSE GetBlockHash(nHeight - 1),
     nTime |-> nTime,
     vtx |-> <<[nTime |-> nTime, contracts |-> <<cClaim>>],
               [nTime |-> nTime, contracts |-> <<>>],
               [nTime |-> nTime, contracts |-> template.contracts]>>,
     verified |-> IF template.sb = 1 THEN {nHeight} ELSE {}]

NoState ==
    [h |-> EmptyHandlers, researcher |-> [dirty |-> FALSE, refreshes |-> 0],
     found |-> FALSE, calls |-> <<>>]

\* The caller of ApplyContracts(block) flags the block index entry with
\* out_found_contract when it connects the block.
IndexEntry(template, nHeight, nTime) ==
    [nHeight |-> nHeight, nTime |-> nTime,
     nIsContract |->
        IF ApplyContracts_Block(NoState, BlockData(template, nHeight, nTime),
                                nHeight).found
        THEN 1 ELSE 0,
     nIsSuperBlock |-> template.sb, nVersion |-> template.ver,
     disk |-> template.disk, data |-> BlockData(template, nHeight, nTime)]

\* CBlock::ReadFromDisk(pindex): the result and the block it leaves.
ReadFromDisk(index) ==
    [ok |-> index.disk = "ok",
     block |-> IF index.disk = "missing" THEN NullBlock ELSE index.data]

\* BlockFinder::FindByMinTime: the earliest block of the main chain that is
\* not older than `time` (the tip when there is none).
FindByMinTime(time) ==
    IF \E i \in 1..Len(chain) : chain[i].nTime >= time
    THEN CHOOSE i \in 1..Len(chain) :
            /\ chain[i].nTime >= time
            /\ \A j \in 1..(i - 1) : chain[j].nTime < time
    ELSE Len(chain)

\* pindex->pnext; 0 is the null pointer.
Pnext(i) == IF i < Len(chain) THEN i + 1 ELSE 0

-----------------------------------------------------------------------------
(* GRC::ReplayContracts.  The loop works on st = [h, researcher, block,    *)
(* trace]: block is the local CBlock and trace the calls made so far.      *)

Event(ev, nHeight) == [ev |-> ev, height |-> nHeight]

\* The first part of the loop body, for the entry at position i.  skip says
\* that the body ended with `continue`.
ReplayContractsOf(st, i) ==
    LET index == chain[i]
        read  == ReadFromDisk(index)
        run   == ApplyContracts_Block(
                     [h |-> st.h, researcher |-> st.researcher, found |-> FALSE,
                      calls |-> <<>>],
                     read.block, index.nHeight)
    IN  IF index.nIsContract = 1
        THEN IF ~read.ok
             THEN [st |-> [st EXCEPT !.block = read.block], skip |-> TRUE]
             ELSE [st |-> [h |-> run.h, researcher |-> run.researcher,
                           block |-> read.block,
                           trace |-> Append(st.trace,
                                            Event("ApplyContracts", index.nHeight))],
                   skip |-> FALSE]
        ELSE [st |-> st, skip |-> FALSE]

\* pindex->pprev->GetBlockHash(): the genesis block has no pprev (no case).
PprevHash(index) ==
    CASE index.nHeight > 0 -> GetBlockHash(index.nHeight - 1)

\* Mutant: the superblock part never reads the block and activates from
\* whatever the local block holds.
ReplaySuperblockOf_NoReread(st, i) ==
    LET index == chain[i]
    IN  IF index.nIsSuperBlock = 1 /\ index.nVersion >= 11
        THEN [st |-> [st EXCEPT
                        !.h = Registry_Call(@, "beacons", "ActivatePending",
                                  [verified |-> st.block.verified,
                                   nTime |-> st.block.nTime]),
                        !.trace = Append(@, Event("ActivatePending",
                                                  index.nHeight))],
              skip |-> FALSE]
        ELSE [st |-> st, skip |-> FALSE]

\* The second part of the loop body: the block is read only when the local
\* block is not the one of this entry.
ReplaySuperblockOf(st, i) ==
    LET index  == chain[i]
        stale  == st.block.hashPrevBlock # PprevHash(index)
        read   == ReadFromDisk(index)
        block  == IF stale THEN read.block ELSE st.block
    IN  IF index.nIsSuperBlock = 1 /\ index.nVersion >= 11
        THEN IF stale /\ ~read.ok
             THEN [st |-> [st EXCEPT !.block = read.block], skip |-> TRUE]
             ELSE [st |-> [st EXCEPT
                             !.h = Registry_Call(@, "beacons", "ActivatePending",
                                       [verified |-> block.verified,
                                        nTime |-> block.nTime]),
                             !.block = block,
                             !.trace = Append(@, Event("ActivatePending",
                                                       index.nHeight))],
                   skip |-> FALSE]
        ELSE [st |-> st, skip |-> FALSE]

\* Mutant: beacons are activated before the contracts of the block are
\* applied.
ReplayBlock_ActivateFirst(st, i) ==
    LET first == ReplaySuperblockOf(st, i)
    IN  IF first.skip THEN first.st ELSE ReplayContractsOf(first.st, i).st

\* One iteration of the loop.
ReplayBlock(st, i) ==
    LET first == ReplayContractsOf(st, i)
    IN  IF first.skip THEN first.st ELSE ReplaySuperblockOf(first.st, i).st

-----------------------------------------------------------------------------
(* SpecReplay: two nodes with the same block index and blocks on disk and  *)
(* with any prior handler state each run ReplayContracts(pindex) for the    *)
(* same pindex, one after the other.  node[n] is [h, researcher]; rp[n] is  *)
(* the call's position: pc, the argument arg, the block found by            *)
(* FindByMinTime (start), the loop variable pindex, the local block, the    *)
(* calls made (trace) and the node's state when the call began (prior).     *)

Nodes == {1, 2}

StaleContext == ContractContext(cBeaconAdd, 0, 0)

\* Handler states a node may hold before the replay.
PriorNodes ==
    {[h |-> EmptyHandlers, researcher |-> [dirty |-> FALSE, refreshes |-> 0]],
     [h |-> [store |-> [section \in Sections |->
                           {[key |-> "old", value |-> "x", timestamp |-> 1]}],
             beacons |-> <<[op |-> "Add", arg |-> StaleContext]>>,
             polls |-> <<[op |-> "Delete", arg |-> StaleContext]>>,
             whitelist |-> <<[op |-> "Add", arg |-> StaleContext]>>],
      researcher |-> [dirty |-> TRUE, refreshes |-> 0]]}

ReplayInit ==
    /\ \E network \in Networks, spacing \in BlockSpacings, n \in 1..MaxBlocks :
          \E templates \in [1..n -> BlockTemplates] :
             /\ fTestNet = network.testnet
             /\ chain = [i \in 1..n |->
                            IndexEntry(templates[i], network.first + i - 1,
                                       Beacon_MAX_AGE + (i - 1) * spacing)]
    /\ node \in [Nodes -> PriorNodes]
    /\ \E arg \in {1, Len(chain)} :
          rp = [n \in Nodes |->
                   [pc |-> "idle", aborted |-> FALSE, arg |-> arg, start |-> 0,
                    pindex |-> 0, block |-> NullBlock, trace |-> <<>>,
                    prior |-> node[n]]]
    /\ contract = Idle /\ ret = Idle /\ h = Idle /\ hist = Idle

\* The call, up to the loop: the block finder, the activation height and
\* ResetHandlers.
ReplayContracts_Begin ==
    \E n \in Nodes :
        /\ rp[n].pc = "idle"
        /\ \A m \in Nodes : m < n => rp[m].pc = "done"
        /\ LET start == FindByMinTime(chain[rp[n].arg].nTime - Beacon_MAX_AGE)
           IN  IF BelowActivation(chain[start].nHeight, fTestNet)
               THEN /\ rp' = [rp EXCEPT ![n].pc = "done", ![n].aborted = TRUE,
                                        ![n].start = start]
                    /\ UNCHANGED node
               ELSE /\ rp' = [rp EXCEPT ![n].pc = "loop", ![n].start = start,
                                        ![n].pindex = start,
                                        ![n].block = NullBlock,
                                        ![n].trace = <<Event("ResetHandlers", 0)>>]
                    /\ node' = [node EXCEPT ![n].h = Dispatcher_ResetHandlers(@)]
        /\ UNCHANGED <<contract, ret, h, hist, chain, fTestNet>>

\* One iteration: for (; pindex; pindex = pindex->pnext)
ReplayContracts_Block ==
    \E n \in Nodes :
        /\ rp[n].pc = "loop"
        /\ rp[n].pindex # 0
        /\ LET i  == rp[n].pindex
               st == ReplayBlock(
                        [h |-> node[n].h, researcher |-> node[n].researcher,
                         block |-> rp[n].block,
                         trace |-> Append(rp[n].trace,
                                          Event("Visit", chain[i].nHeight))], i)
           IN  /\ node' = [node EXCEPT ![n].h = st.h,
                                       ![n].researcher = st.researcher]
               /\ rp' = [rp EXCEPT ![n].block = st.block, ![n].trace = st.trace,
                                   ![n].pindex = Pnext(i)]
        /\ UNCHANGED <<contract, ret, h, hist, chain, fTestNet>>

\* The end of the loop: Researcher::Refresh()
ReplayContracts_End ==
    \E n \in Nodes :
        /\ rp[n].pc = "loop"
        /\ rp[n].pindex = 0
        /\ node' = [node EXCEPT ![n].researcher = Researcher_Refresh(@)]
        /\ rp' = [rp EXCEPT ![n].pc = "done",
                            ![n].trace = Append(@, Event("Refresh", 0))]
        /\ UNCHANGED <<contract, ret, h, hist, chain, fTestNet>>

ReplayNext == ReplayContracts_Begin \/ ReplayContracts_Block \/ ReplayContracts_End

SpecReplay == ReplayInit /\ [][ReplayNext]_vars

-----------------------------------------------------------------------------
(* SpecPipeline: a node that holds some handler state connects one          *)
(* transaction or one block with ApplyContracts, or disconnects one         *)
(* transaction with RevertContracts (any transaction, or the one it has     *)
(* just connected).  node is the state st the driver works on, with calls   *)
(* the dispatcher calls of the last driver call; hist is the last driver    *)
(* call: op, its argument arg and the state before it, and for              *)
(* RevertContracts of the transaction just connected (paired) the state     *)
(* before that transaction was connected (pre).                             *)

MaxContracts == 2

MaxTxs == 2

cRequireTeam ==
    Contract_Sign(Contract(1, "PROTOCOL", "ADD",
                           LegacyPayload("REQUIRE_TEAM_WHITELIST_MEMBERSHIP", "true"),
                           NoSignature, "NONE"), MasterPublicKey, TRUE, 71)

cTeamWhitelistForged ==
    Contract_Sign(Contract(1, "PROTOCOL", "ADD", LegacyPayload("TEAM_WHITELIST", "f"),
                           NoSignature, "NONE"), "USER_KEY", TRUE, 71)

cBeaconTeamKey ==
    Contract(CURRENT_VERSION, "BEACON", "ADD",
             TypedPayload("TEAM_WHITELIST", "key", TRUE), NoSignature, "NONE")

\* A version 1 contract with a genuine signature and no action.
cScraperNoAction ==
    Contract_Sign(Contract(1, "SCRAPER", "UNKNOWN", LegacyPayload("s", "v"),
                           NoSignature, "NONE"), MasterPublicKey, TRUE, 71)

\* A current-version contract whose payload fails its structural check.
cBeaconMalformed ==
    Contract(CURRENT_VERSION, "BEACON", "REMOVE", TypedPayload("", "", FALSE),
             NoSignature, "NONE")

\* A version 1 ADD contract with a genuine signature and no value.
cProtocolNoValue ==
    Contract_Sign(Contract(1, "PROTOCOL", "ADD", LegacyPayload("k", ""),
                           NoSignature, "NONE"), MasterPublicKey, TRUE, 71)

PipelineContracts ==
    {cProtocolAdd, cProtocolRemove, cProtocolNoValue, cTeamWhitelist,
     cRequireTeam, cTeamWhitelistForged, cBeaconTeamKey, cMessage, cScraperAdd,
     cScraperForged, cScraperNoAction, cBeaconMalformed}

\* The sequences over S of at most n elements.
SeqsUpTo(S, n) == UNION {[1..k -> S] : k \in 0..n}

\* A transaction that carries at most MaxContracts contracts.
PipelineTxs ==
    {[nTime |-> 1, contracts |-> contracts] :
        contracts \in SeqsUpTo(PipelineContracts, MaxContracts)}

\* A block: a coinbase and a coinstake, given contracts here to see that
\* they are passed over, and at most MaxTxs further transactions that carry
\* at most one contract each.  The time of a transaction is its position.
PipelineBlocks ==
    {[hashPrevBlock |-> GetBlockHash(0), nTime |-> 1,
      vtx |-> <<[nTime |-> 1, contracts |-> <<cTeamWhitelist>>],
                [nTime |-> 2, contracts |-> coinstake]>>
              \o [i \in 1..Len(rest) |->
                     [nTime |-> i + 2, contracts |-> rest[i]]],
      verified |-> {}] :
        coinstake \in {<<>>, <<cBeaconTeamKey>>},
        rest \in SeqsUpTo(SeqsUpTo(PipelineContracts, 1), MaxTxs)}

\* Handler states the node may hold before the call: none, or the state
\* left by an earlier transaction.
PipelinePriors ==
    {EmptyHandlers,
     ApplyContracts_Tx(NoState,
                       [nTime |-> 0,
                        contracts |-> <<cProtocolAdd, cScraperAdd, cBeaconTeamKey>>],
                       0).h}

PipelineInit ==
    /\ \E prior \in PipelinePriors, dirty \in BOOLEAN, found \in BOOLEAN :
          node = [h |-> prior, researcher |-> [dirty |-> dirty, refreshes |-> 0],
                  found |-> found, calls |-> <<>>]
    /\ hist = [op |-> "none", arg |-> <<>>, before |-> node]
    /\ contract = Idle /\ ret = Idle /\ h = Idle /\ chain = Idle
    /\ fTestNet = Idle /\ rp = Idle

\* ApplyContracts(tx, pindex, out_found_contract)
ApplyContracts_Transaction ==
    \E tx \in PipelineTxs :
        /\ hist.op = "none"
        /\ node' = ApplyContracts_Tx(node, tx, 0)
        /\ hist' = [op |-> "ApplyContracts(tx)", arg |-> tx, before |-> node]
        /\ UNCHANGED <<contract, ret, h, chain, fTestNet, rp>>

\* ApplyContracts(block, pindex, out_found_contract)
ApplyContracts_CBlock ==
    \E block \in PipelineBlocks :
        /\ hist.op = "none"
        /\ node' = ApplyContracts_Block(node, block, 0)
        /\ hist' = [op |-> "ApplyContracts(block)", arg |-> block, before |-> node]
        /\ UNCHANGED <<contract, ret, h, chain, fTestNet, rp>>

\* RevertContracts(tx, pindex)
RevertContracts ==
    \E tx \in PipelineTxs :
        /\ hist.op = "none" \/ (hist.op = "ApplyContracts(tx)" /\ hist.arg = tx)
        /\ node' = RevertContracts_Tx([node EXCEPT !.calls = <<>>], tx, 0)
        /\ hist' = [op |-> "RevertContracts", arg |-> tx,
                    before |-> [node EXCEPT !.calls = <<>>],
                    paired |-> hist.op = "ApplyContracts(tx)",
                    pre |-> hist.before]
        /\ UNCHANGED <<contract, ret, h, chain, fTestNet, rp>>

PipelineNext ==
    ApplyContracts_Transaction \/ ApplyContracts_CBlock \/ RevertContracts

SpecPipeline == PipelineInit /\ [][PipelineNext]_vars

-----------------------------------------------------------------------------
(* Claims about the key-resolution policy, under SpecContract              *)

IsType(types, action) == contract.m_type \in types /\ contract.m_action = action

Resolved(key) == ret.op = "ResolvePublicKey" => ret.key = key

\* C6 as stated: a BEACON ADD contract requires neither the message key nor
\* the master key, and ResolvePublicKey() returns the embedded public key.
C6_BeaconAddSelfSigned ==
    IsType({"BEACON"}, "ADD") =>
        /\ ~Contract_RequiresMessageKey(contract)
        /\ ~Contract_RequiresMasterKey(contract)
        /\ Resolved(contract.m_public_key)

\* C6 (amended): a BEACON ADD contract, at every version, requires the
\* message key and not the master key, and ResolvePublicKey() returns the
\* fixed message key.
C6_BeaconAddMessageKey ==
    IsType({"BEACON"}, "ADD") =>
        /\ Contract_RequiresMessageKey(contract)
        /\ ~Contract_RequiresMasterKey(contract)
        /\ Resolved(MessagePublicKey)

C6_Witness ==
    /\ IsType({"BEACON"}, "ADD")
    /\ contract.m_version >= 2
    /\ contract.m_public_key = "USER_KEY"
    /\ ret.op = "ResolvePublicKey" /\ ret.key = MessagePublicKey

\* C7: POLL and VOTE contracts, at every version: ADD requires the message
\* key and not the master key and resolves to the message key; REMOVE
\* requires the master key and not the message key and resolves to the
\* wallet's master key.
C7_PollVotePolicy ==
    /\ IsType({"POLL", "VOTE"}, "ADD") =>
          /\ Contract_RequiresMessageKey(contract)
          /\ ~Contract_RequiresMasterKey(contract)
          /\ Resolved(MessagePublicKey)
    /\ IsType({"POLL", "VOTE"}, "REMOVE") =>
          /\ Contract_RequiresMasterKey(contract)
          /\ ~Contract_RequiresMessageKey(contract)
          /\ Resolved(MasterPublicKey)

C7_Witness ==
    /\ IsType({"VOTE"}, "REMOVE")
    /\ contract.m_public_key = "USER_KEY"
    /\ ret.op = "ResolvePublicKey" /\ ret.key = MasterPublicKey

\* C8: PROJECT, PROTOCOL and SCRAPER contracts, at every version and for ADD
\* and REMOVE alike, require the master key and never the message key, and
\* resolve to the wallet's master key.
C8_MasterKeyOnly ==
    \A action \in {"ADD", "REMOVE"} :
        IsType({"PROJECT", "PROTOCOL", "SCRAPER"}, action) =>
            /\ Contract_RequiresMasterKey(contract)
            /\ ~Contract_RequiresMessageKey(contract)
            /\ Resolved(MasterPublicKey)
            /\ MasterPublicKey # MessagePublicKey

C8_Witness ==
    /\ IsType({"PROJECT"}, "ADD")
    /\ contract.m_public_key = "USER_KEY"
    /\ ret.op = "ResolvePublicKey" /\ ret.key = MasterPublicKey

\* C9: a BEACON REMOVE contract requires the master key exactly when its
\* version is 1; at version >= 2 it requires no special key and resolves to
\* the embedded public key.  CLAIM, MESSAGE, UNKNOWN (and out-of-bound)
\* contracts require no special key for any action or version.
C9_BeaconRemoveAndOthers ==
    /\ IsType({"BEACON"}, "REMOVE") =>
          /\ Contract_RequiresMasterKey(contract) <=> contract.m_version = 1
          /\ contract.m_version >= 2 =>
                /\ ~Contract_RequiresSpecialKey(contract)
                /\ Resolved(contract.m_public_key)
    /\ contract.m_type \in {"CLAIM", "MESSAGE", "UNKNOWN", "OUT_OF_BOUND"} =>
          /\ ~Contract_RequiresSpecialKey(contract)
          /\ Resolved(contract.m_public_key)

C9_Witness ==
    /\ IsType({"BEACON"}, "REMOVE")
    /\ contract.m_version >= 2
    /\ contract.m_public_key = "USER_KEY"
    /\ ret.op = "ResolvePublicKey" /\ ret.key = "USER_KEY"

SignedBy(key) ==
    \E len \in DerLengths :
        contract.m_signature = CKey_Sign(key, Contract_GetHash(contract), len)

\* C10: a version-1 BEACON ADD contract with a structurally valid legacy
\* payload whose signature the message key made over GetHash() passes
\* Validate(); with a signature made by any other key, VerifySignature()
\* fails.
C10_MessageKeySignature ==
    (/\ contract.m_version = 1
     /\ IsType({"BEACON"}, "ADD")
     /\ LegacyPayload_WellFormed(contract.m_body, "ADD")) =>
        /\ SignedBy(MessagePublicKey) =>
              /\ Contract_Validate(contract)
              /\ ret.op = "Validate" => ret.ok
        /\ \A key \in SigningKeys \ {MessagePublicKey} :
              SignedBy(key) =>
                 /\ ~Contract_VerifySignature(contract)
                 /\ ret.op = "VerifySignature" => ~ret.ok

C10_Witness ==
    /\ contract.m_version = 1
    /\ IsType({"BEACON"}, "ADD")
    /\ SignedBy(MessagePublicKey)
    /\ ret.op = "Validate" /\ ret.ok

-----------------------------------------------------------------------------
(* Claims about the dispatcher, under SpecDispatch                         *)

\* The last two calls were Apply(ctx) and Revert(ctx) of one contract routed
\* to the legacy bridging handler, with action ADD or REMOVE.
LegacyApplyRevert ==
    /\ hist.op = "Revert" /\ hist.paired
    /\ hist.ctx.c.m_type \in {"PROTOCOL", "SCRAPER"}
    /\ hist.ctx.c.m_action \in {"ADD", "REMOVE"}

\* The entry the context addresses, as it was before the Apply.
AddressedBefore ==
    {e \in hist.pre.store[StringToSection(Type_ToString(hist.ctx.c.m_type))] :
        e.key = hist.ctx.c.m_body.m_key}

\* C1 as stated: for every prior store, Apply(ctx) followed immediately by
\* Revert(ctx) of an ADD or REMOVE contract of the legacy bridging handler
\* leaves the store equal to the store before the Apply.
C1_ApplyRevertRestores ==
    LegacyApplyRevert => h.store = hist.pre.store

\* C1 (amended): the store is restored when, before the Apply, the addressed
\* (section, key) had no entry (action ADD), or had the entry with the
\* contract's value and the transaction's time (action REMOVE).
C1_ApplyRevertRestoresFresh ==
    (/\ LegacyApplyRevert
     /\ hist.ctx.c.m_action = "ADD" => AddressedBefore = {}
     /\ hist.ctx.c.m_action = "REMOVE" =>
            AddressedBefore = {[key |-> hist.ctx.c.m_body.m_key,
                                value |-> hist.ctx.c.m_body.m_value,
                                timestamp |-> hist.ctx.nTime]})
        => h = hist.pre

C1_Witness ==
    /\ LegacyApplyRevert
    /\ hist.ctx.c.m_action = "REMOVE"
    /\ AddressedBefore # {}
    /\ hist.before # hist.pre
    /\ h = hist.pre

-----------------------------------------------------------------------------
(* Claims about ReplayContracts, under SpecReplay                          *)

Completed(n) == rp[n].pc = "done" /\ ~rp[n].aborted

\* C2: two executions of ReplayContracts over the same block index and block
\* history, from any prior handler states, whose start block is at or above
\* the activation height, end with the same handler state.
C2_ReplayDeterministic ==
    (\A n \in Nodes : Completed(n)) => node[1].h = node[2].h

C2_Witness ==
    /\ \A n \in Nodes : Completed(n)
    /\ rp[1].prior.h # rp[2].prior.h
    /\ node[1].h = node[2].h
    /\ node[1].h.store["SCRAPER"] # {}
    /\ node[1].h.beacons # <<>>

\* C3: ReplayContracts called on a block below the activation height (1 on
\* testnet, 164618 otherwise) returns without a handler reset, a contract
\* application, a beacon activation or a researcher refresh: the handler
\* state and the researcher cache are what they were before the call.
C3_BelowActivationNoEffect ==
    \A n \in Nodes :
        (/\ rp[n].pc = "done"
         /\ \/ fTestNet /\ chain[rp[n].arg].nHeight < 1
            \/ ~fTestNet /\ chain[rp[n].arg].nHeight < 164618)
            => /\ rp[n].aborted
               /\ rp[n].trace = <<>>
               /\ node[n] = rp[n].prior

C3_Witness ==
    /\ rp[2].pc = "done" /\ rp[2].aborted
    /\ ~fTestNet /\ chain[rp[2].arg].nHeight = 164617
    /\ Len(chain) > 1
    /\ rp[2].prior.h # EmptyHandlers
    /\ node[2] = rp[2].prior

EventsOf(trace, ev) == {k \in 1..Len(trace) : trace[k].ev = ev}

VisitsOf(trace) == SelectSeq(trace, LAMBDA e : e.ev = "Visit")

\* The position in the chain of the block a height belongs to.
PositionOf(nHeight) == nHeight - chain[1].nHeight + 1

\* The calls of one replay are in order: the reset first and once; the
\* blocks visited in ascending order, each once; the calls made for a block
\* follow its visit, ApplyContracts before ActivatePending, each at most
\* once and only for a block flagged for it.
OrderedTrace(n) ==
    LET trace == rp[n].trace
        visits == VisitsOf(trace)
    IN  /\ trace[1].ev = "ResetHandlers"
        /\ EventsOf(trace, "ResetHandlers") = {1}
        /\ \A k \in 1..Len(visits) :
              visits[k].height = chain[rp[n].start].nHeight + k - 1
        /\ \A k \in EventsOf(trace, "ApplyContracts") \cup
                    EventsOf(trace, "ActivatePending") :
              /\ \E v \in EventsOf(trace, "Visit") :
                    /\ v < k
                    /\ trace[v].height = trace[k].height
                    /\ \A w \in EventsOf(trace, "Visit") : w <= v \/ w > k
              /\ \A l \in 1..Len(trace) : l # k => trace[l] # trace[k]
        /\ \A k \in EventsOf(trace, "ApplyContracts") :
              /\ chain[PositionOf(trace[k].height)].nIsContract = 1
              /\ \A l \in EventsOf(trace, "ActivatePending") :
                    trace[l].height = trace[k].height => k < l
        /\ \A k \in EventsOf(trace, "ActivatePending") :
              /\ chain[PositionOf(trace[k].height)].nIsSuperBlock = 1
              /\ chain[PositionOf(trace[k].height)].nVersion >= 11

\* A completed replay visited every block from the start block to the tip,
\* applied the contracts of every flagged block that could be read,
\* activated the beacons of every superblock of version >= 11 that could be
\* read, and refreshed the researcher cache once, as its last call.
CompleteTrace(n) ==
    LET trace == rp[n].trace
    IN  /\ Len(VisitsOf(trace)) = Len(chain) - rp[n].start + 1
        /\ EventsOf(trace, "Refresh") = {Len(trace)}
        /\ \A i \in rp[n].start..Len(chain) :
              chain[i].disk = "ok" =>
                 /\ chain[i].nIsContract = 1 =>
                       Event("ApplyContracts", chain[i].nHeight)
                           \in {trace[k] : k \in 1..Len(trace)}
                 /\ chain[i].nIsSuperBlock = 1 /\ chain[i].nVersion >= 11 =>
                       Event("ActivatePending", chain[i].nHeight)
                           \in {trace[k] : k \in 1..Len(trace)}

\* C4: a replay that does not abort resets the handlers once, before the
\* first contract application, then visits every block from the start block
\* to the tip once in ascending order; for a block its contracts are applied
\* before its verified beacons are activated; the researcher refresh happens
\* once, after the last block.
C4_ReplayOrder ==
    \A n \in Nodes :
        /\ rp[n].pc = "loop" => OrderedTrace(n)
        /\ Completed(n) => OrderedTrace(n) /\ CompleteTrace(n)

C4_Witness ==
    /\ Completed(1)
    /\ Len(chain) - rp[1].start >= 1
    /\ \E k \in 1..(Len(rp[1].trace) - 1) :
          /\ rp[1].trace[k].ev = "ApplyContracts"
          /\ rp[1].trace[k + 1] = Event("ActivatePending", rp[1].trace[k].height)
    /\ rp[1].trace[Len(rp[1].trace)].ev = "Refresh"

\* The state built while blocks start .. tip were connected, from empty
\* handlers: ApplyContracts(block) for each block in order.
RECURSIVE ConnectBlocks(_, _)
ConnectBlocks(st, i) ==
    IF i > Len(chain) THEN st
    ELSE ConnectBlocks(ApplyContracts_Block(st, chain[i].data, chain[i].nHeight),
                       i + 1)

\* Every contract block the replay of node n visits can be read from disk.
ReadableWindow(n) ==
    \A i \in rp[n].start..Len(chain) :
        chain[i].nIsContract = 1 => chain[i].disk = "ok"

\* C5 as stated: for every chain, the legacy bridging handler's state after
\* ReplayContracts(tip) equals the state built from empty handlers by
\* ApplyContracts on every block of the chain in order (stated for a replay
\* that does not abort and reads every contract block it visits).
C5_ReplayEqualsHistory ==
    \A n \in Nodes :
        (Completed(n) /\ rp[n].arg = Len(chain) /\ ReadableWindow(n))
            => node[n].h.store = ConnectBlocks(NoState, 1).h.store

\* C5 (amended): when the replay does not abort and every contract block it
\* visits can be read, the legacy bridging handler's state after it equals
\* the state built from empty handlers by ApplyContracts on every block from
\* the replay's start block to the tip, in order.
C5_ReplayEqualsWindow ==
    \A n \in Nodes :
        (Completed(n) /\ ReadableWindow(n))
            => node[n].h.store = ConnectBlocks(NoState, rp[n].start).h.store

C5_Witness ==
    /\ Completed(1)
    /\ rp[1].arg = Len(chain)
    /\ rp[1].start > 1
    /\ rp[1].prior.h # EmptyHandlers
    /\ node[1].h.store # EmptyStore
    /\ node[1].h.store = ConnectBlocks(NoState, rp[1].start).h.store
    /\ node[1].h.store # ConnectBlocks(NoState, 1).h.store

-----------------------------------------------------------------------------
(* Claims about the structural checks, signing and hashing, under          *)
(* SpecContract                                                            *)

\* Signatures and embedded keys a contract is compared under: the foreign
\* ones and the signatures each key makes of the contract's hash.
SignaturesFor(c) ==
    ForeignSignatures
        \cup {CKey_Sign(key, Contract_GetHash(c), 71) : key \in SigningKeys}

\* The payload fails its own structural check for the action.
PayloadFails(payload, action) ==
    CASE payload.kind = "Empty"  -> TRUE
      [] payload.kind = "Legacy" ->
            payload.m_key = "" \/ (payload.m_value = "" /\ action # "REMOVE")
      [] OTHER                   -> ~payload.wf

\* C11: a contract whose type is UNKNOWN, whose action is UNKNOWN or whose
\* payload fails its structural check for the action is not well formed,
\* whatever its version, signature and public key are.
C11_MalformedNeverWellFormed ==
    (\/ contract.m_type = "UNKNOWN"
     \/ contract.m_action = "UNKNOWN"
     \/ PayloadFails(contract.m_body, contract.m_action))
        => /\ ret.op = "WellFormed" => ~ret.ok
           /\ \A version \in 0..MaxVersion, signature \in SignaturesFor(contract),
                 public_key \in PublicKeys :
                 ~Contract_WellFormed([contract EXCEPT
                                          !.m_version = version,
                                          !.m_signature = signature,
                                          !.m_public_key = public_key])

C11_Witness ==
    /\ contract.m_type = "UNKNOWN"
    /\ contract.m_version = 1
    /\ contract.m_action = "ADD"
    /\ ~PayloadFails(contract.m_body, contract.m_action)
    /\ Signature_Viable(contract.m_signature)
    /\ contract.m_signature.signer = contract.m_public_key
    /\ contract.m_public_key = "USER_KEY"
    /\ ret.op = "WellFormed" /\ ~ret.ok

\* C12: Validate() is true exactly when WellFormed() holds and, for version
\* 1, VerifySignature() holds; a well-formed version 1 contract has a
\* signature of 64 to 73 bytes and a policy-implied key or a viable embedded
\* key; for version 2 and later the result of Validate() is the same under
\* every signature and public key.
C12_ValidateDefinition ==
    /\ ret.op = "Validate" =>
          ret.ok = (/\ Contract_WellFormed(contract)
                    /\ (contract.m_version = 1
                            => Contract_VerifySignature(contract)))
    /\ (contract.m_version = 1 /\ Contract_WellFormed(contract)) =>
          /\ contract.m_signature.len \in 64..73
          /\ \/ Contract_RequiresMessageKey(contract)
             \/ Contract_RequiresMasterKey(contract)
             \/ contract.m_public_key # "NONE"
    /\ contract.m_version >= 2 =>
          \A signature \in SignaturesFor(contract), public_key \in PublicKeys :
              Contract_Validate([contract EXCEPT !.m_signature = signature,
                                                 !.m_public_key = public_key])
                  = Contract_Validate(contract)

\* A well-formed version 1 contract with a viable signature that does not
\* verify: Validate() has returned false.
C12_Witness ==
    /\ contract.m_version = 1
    /\ Contract_WellFormed(contract)
    /\ contract.m_signature.signer = "USER_KEY"
    /\ Contract_RequiresMasterKey(contract)
    /\ ret.op = "Validate" /\ ~ret.ok

\* The step is a call of Sign().
SignStep == ret'.op = "Sign"

\* C13: a successful Sign(key) sets the signature to the key's signature of
\* GetHash() and sets the embedded public key to the signer's exactly when
\* neither the message key nor the master key is required, leaving it
\* unchanged otherwise; a failed Sign() leaves signature and public key
\* unchanged; version, type, action and body never change.
C13_SignEffect ==
    [][SignStep =>
          /\ contract'.m_version = contract.m_version
          /\ contract'.m_type = contract.m_type
          /\ contract'.m_action = contract.m_action
          /\ contract'.m_body = contract.m_body
          /\ IF ret'.ok
             THEN /\ \E len \in DerLengths :
                        contract'.m_signature
                            = CKey_Sign(ret'.key, Contract_GetHash(contract), len)
                  /\ contract'.m_public_key =
                        IF /\ ~Contract_RequiresMessageKey(contract)
                           /\ ~Contract_RequiresMasterKey(contract)
                        THEN ret'.key
                        ELSE contract.m_public_key
             ELSE /\ contract'.m_signature = contract.m_signature
                  /\ contract'.m_public_key = contract.m_public_key]_vars

\* Sign() succeeded on a contract that requires the master key and was
\* given another key: the signature is that key's, the embedded key is not.
C13_Witness ==
    /\ ret.op = "Sign" /\ ret.ok /\ ret.key = "USER_KEY"
    /\ Contract_RequiresMasterKey(contract)
    /\ contract.m_signature.signer = "USER_KEY"
    /\ contract.m_signature.hash = Contract_GetHash(contract)
    /\ contract.m_public_key = "NONE"

\* C20: the hash of a version 1 contract is the same under every action,
\* signature and public key, and a call of Sign() does not change it.
C20_LegacyHashInputs ==
    [][contract.m_version = 1 =>
          /\ \A action \in ContractActions,
                signature \in SignaturesFor(contract), public_key \in PublicKeys :
                Contract_GetHash([contract EXCEPT !.m_action = action,
                                                  !.m_signature = signature,
                                                  !.m_public_key = public_key])
                    = Contract_GetHash(contract)
          /\ SignStep => Contract_GetHash(contract') = Contract_GetHash(contract)]_vars

\* A version 1 contract that Sign() has signed, with the hash the signature
\* names.
C20_Witness ==
    /\ contract.m_version = 1
    /\ contract.m_body.m_key = "k" /\ contract.m_body.m_value = "v"
    /\ ret.op = "Sign" /\ ret.ok
    /\ contract.m_signature.hash = Contract_GetHash(contract)
    /\ contract.m_public_key = ret.key

-----------------------------------------------------------------------------
(* Claims about unrouted contract types, under SpecDispatch                *)

UnroutedTypes == {"CLAIM", "MESSAGE", "UNKNOWN", "OUT_OF_BOUND"}

\* The contexts of the unrouted types: both versions, every action.
UnroutedContexts ==
    {ContractContext(
         Contract(version, type, action,
                  IF version = 1 THEN LegacyPayload("k", "v")
                                 ELSE TypedPayload("k", "v", TRUE),
                  NoSignature, "NONE"), 1, 0) :
        version \in {1, CURRENT_VERSION}, type \in UnroutedTypes,
        action \in ContractActions}

\* C14: Dispatcher.Apply and Dispatcher.Revert of a contract whose type is
\* CLAIM, MESSAGE, UNKNOWN or out of range leave the legacy store and every
\* registry as they were, for every action.
C14_UnroutedNoEffect ==
    /\ (hist.op \in {"Apply", "Revert"} /\ hist.ctx.c.m_type \in UnroutedTypes)
          => h = hist.before
    /\ \A ctx \in UnroutedContexts :
          Dispatcher_Apply(h, ctx) = h /\ Dispatcher_Revert(h, ctx) = h

\* A CLAIM contract was dispatched to handlers that hold state: an entry in
\* the store and a call received by the beacon registry.
C14_Witness ==
    /\ hist.op \in {"Apply", "Revert"}
    /\ hist.ctx.c.m_type = "CLAIM"
    /\ hist.ctx.c.m_action = "ADD"
    /\ h.store["PROTOCOL"] # {}
    /\ Len(h.beacons) = 1

-----------------------------------------------------------------------------
(* Claims about ApplyContracts and RevertContracts, under SpecPipeline     *)

AppliedTx == hist.op = "ApplyContracts(tx)"

AppliedBlock == hist.op = "ApplyContracts(block)"

Reverted == hist.op = "RevertContracts"

\* A version 1 contract that fails Validate().
FailsValidate(c) == c.m_version = 1 /\ ~Contract_Validate(c)

Processed(c) == ~FailsValidate(c)

\* A PROTOCOL contract whose legacy key is a team-whitelist setting.
TeamSetting(c) ==
    /\ c.m_type = "PROTOCOL"
    /\ c.m_body.m_key \in {"TEAM_WHITELIST", "REQUIRE_TEAM_WHITELIST_MEMBERSHIP"}

Tracked(c) == Processed(c) /\ c.m_type # "MESSAGE"

ProcessedAndRouted(c) == Processed(c) /\ ~TeamSetting(c)

\* The calls op(ctx) for the contracts of a transaction, in order.
CallsFor(op, contracts, nTime) ==
    [i \in 1..Len(contracts) |->
        [op |-> op, ctx |-> [c |-> contracts[i], nTime |-> nTime, pindex |-> 0]]]

\* C15: in ApplyContracts(tx), a version 1 contract that fails Validate() is
\* not dispatched, does not mark the researcher cache dirty and does not set
\* out_found_contract, while every other contract of the transaction, and
\* so every contract of version 2 or later, is dispatched.
C15_InvalidLegacySkipped ==
    AppliedTx =>
        LET cs == hist.arg.contracts
        IN  /\ \A k \in DOMAIN node.calls : ~FailsValidate(node.calls[k].ctx.c)
            /\ \A i \in DOMAIN cs :
                  (Processed(cs[i]) \/ cs[i].m_version >= 2)
                      => \E k \in DOMAIN node.calls : node.calls[k].ctx.c = cs[i]
            /\ (\A i \in DOMAIN cs : TeamSetting(cs[i]) => FailsValidate(cs[i]))
                  => node.researcher = hist.before.researcher
            /\ (\A i \in DOMAIN cs : cs[i].m_type # "MESSAGE" => FailsValidate(cs[i]))
                  => node.found = hist.before.found
            /\ (\A i \in DOMAIN cs : FailsValidate(cs[i])) => node = hist.before

\* A forged team-whitelist contract followed by a malformed contract of the
\* current version: one call, and the cache is not dirty.
C15_Witness ==
    /\ AppliedTx
    /\ hist.arg.contracts = <<cTeamWhitelistForged, cBeaconMalformed>>
    /\ Len(node.calls) = 1
    /\ node.calls[1].ctx.c = cBeaconMalformed
    /\ ~node.researcher.dirty
    /\ Len(node.h.beacons) > Len(hist.before.h.beacons)

\* C16: ApplyContracts(tx) leaves the researcher cache dirty exactly when it
\* was dirty before or the transaction holds a non-skipped PROTOCOL
\* contract whose legacy key is "TEAM_WHITELIST" or
\* "REQUIRE_TEAM_WHITELIST_MEMBERSHIP".
C16_DirtyOnTeamSetting ==
    AppliedTx =>
        LET cs == hist.arg.contracts
        IN  /\ node.researcher.dirty =
                  (\/ hist.before.researcher.dirty
                   \/ \E i \in DOMAIN cs : Processed(cs[i]) /\ TeamSetting(cs[i]))
            /\ node.researcher.refreshes = hist.before.researcher.refreshes

\* A BEACON contract with the key "TEAM_WHITELIST" and a PROTOCOL contract
\* with another key leave a clean cache clean.
C16_Witness ==
    /\ AppliedTx
    /\ hist.arg.contracts = <<cBeaconTeamKey, cProtocolAdd>>
    /\ ~hist.before.researcher.dirty
    /\ ~node.researcher.dirty
    /\ Len(node.calls) = 2

\* C17 as stated: a non-skipped team-whitelist PROTOCOL contract marks the
\* researcher cache dirty and is not dispatched; every other non-skipped
\* contract is dispatched once, in transaction order.
C17_DirtyInsteadOfDispatch ==
    AppliedTx =>
        LET cs == hist.arg.contracts
        IN  /\ node.calls = CallsFor("Apply", SelectSeq(cs, ProcessedAndRouted),
                                     hist.arg.nTime)
            /\ (\E i \in DOMAIN cs : Processed(cs[i]) /\ TeamSetting(cs[i]))
                  => node.researcher.dirty

\* C17 (amended): every non-skipped contract, a team-whitelist PROTOCOL
\* contract included, is dispatched via Dispatcher.Apply once, in
\* transaction order; a team-whitelist PROTOCOL contract marks the
\* researcher cache dirty as well.
C17_DirtyAndDispatch ==
    AppliedTx =>
        LET cs == hist.arg.contracts
        IN  /\ node.calls = CallsFor("Apply", SelectSeq(cs, Processed),
                                     hist.arg.nTime)
            /\ (\E i \in DOMAIN cs : Processed(cs[i]) /\ TeamSetting(cs[i]))
                  => node.researcher.dirty

\* The team-whitelist contract was dispatched: its entry is in the store.
C17_Witness ==
    /\ AppliedTx
    /\ hist.arg.contracts = <<cTeamWhitelist, cScraperAdd>>
    /\ Len(node.calls) = 2
    /\ node.calls[1].ctx.c = cTeamWhitelist
    /\ node.researcher.dirty
    /\ [key |-> "TEAM_WHITELIST", value |-> "t", timestamp |-> 1]
           \in node.h.store["PROTOCOL"]

\* C18: after ApplyContracts(block), out_found_contract is true exactly
\* when a transaction after the first two carries a non-skipped contract
\* that is not a MESSAGE, and no contract of the first two transactions is
\* applied; ApplyContracts(tx) leaves the flag true exactly when it was true
\* or the transaction carries such a contract.
C18_FoundContract ==
    /\ AppliedBlock =>
          LET vtx == hist.arg.vtx
          IN  /\ node.found =
                    (\E i \in 3..Len(vtx) :
                        \E j \in DOMAIN vtx[i].contracts :
                            Tracked(vtx[i].contracts[j]))
              /\ \A k \in DOMAIN node.calls : node.calls[k].ctx.nTime >= 3
              /\ \A i \in 3..Len(vtx) :
                    \A j \in DOMAIN vtx[i].contracts :
                        Processed(vtx[i].contracts[j]) =>
                            \E k \in DOMAIN node.calls :
                                /\ node.calls[k].ctx.c = vtx[i].contracts[j]
                                /\ node.calls[k].ctx.nTime = i
    /\ AppliedTx =>
          node.found =
              (\/ hist.before.found
               \/ \E i \in DOMAIN hist.arg.contracts :
                     Tracked(hist.arg.contracts[i]))

\* A block whose coinbase and coinstake carry contracts and whose only other
\* contract is a MESSAGE, connected while the caller's flag was set.
C18_Witness ==
    /\ AppliedBlock
    /\ hist.before.found
    /\ Len(hist.arg.vtx) = 3
    /\ hist.arg.vtx[2].contracts = <<cBeaconTeamKey>>
    /\ hist.arg.vtx[3].contracts = <<cMessage>>
    /\ ~node.found
    /\ Len(node.calls) = 1
    /\ node.researcher = hist.before.researcher

\* The contract is undone by RevertContracts.
Undone(c) == c.m_version >= 2 \/ Contract_VerifySignature(c)

\* C19: RevertContracts(tx) calls Dispatcher.Revert once for every contract
\* of the transaction that is of version 2 or later or whose version 1
\* signature verifies, makes no call for the others and never calls
\* Dispatcher.Apply.
C19_RevertDispatch ==
    Reverted =>
        /\ node.calls = CallsFor("Revert", SelectSeq(hist.arg.contracts, Undone),
                                 hist.arg.nTime)
        /\ \A k \in DOMAIN node.calls : node.calls[k].op # "Apply"

\* A version 1 contract with a genuine signature and no action is undone,
\* one with a forged signature is not.
C19_Witness ==
    /\ Reverted
    /\ hist.arg.contracts = <<cScraperNoAction, cScraperForged>>
    /\ Len(node.calls) = 1
    /\ node.calls[1] = [op |-> "Revert",
                        ctx |-> ContractContext(cScraperNoAction, 1, 0)]

-----------------------------------------------------------------------------
(* Claims about routing and the handler calls, under SpecRouting           *)

Dispatched == hist.op \in {"Apply", "Revert", "Validate"}

\* The routing table: the handler of a type, named by the field it owns.
RoutedTo(type) ==
    CASE type = "BEACON"                -> "beacons"
      [] type \in {"POLL", "VOTE"}      -> "polls"
      [] type = "PROJECT"               -> "whitelist"
      [] type \in {"PROTOCOL", "SCRAPER"} -> "store"
      [] OTHER                          -> "unknown"

HandlerFields == {"store", "beacons", "polls", "whitelist"}

\* Contexts of every type: every action at the current version, ADD and
\* REMOVE at version 1.
AllContexts ==
    {ContractContext(
         Contract(va[1], type, va[2],
                  IF va[1] = 1 \/ type \in {"PROTOCOL", "SCRAPER"}
                  THEN LegacyPayload("k", "v") ELSE TypedPayload("k", "v", TRUE),
                  NoSignature, "NONE"), 1, 0) :
        type \in ContractTypes,
        va \in ({CURRENT_VERSION} \X ContractActions) \cup ({1} \X {"ADD", "REMOVE"})}

\* C21: Apply, Revert and Validate of a contract reach the handler the
\* routing table gives for its type and no other: only that handler's state
\* changes, a registry receives the call, and Validate asks that handler;
\* this holds for every action and version.
C21_RoutingByType ==
    /\ Dispatched =>
          LET type == hist.ctx.c.m_type
          IN  /\ \A f \in HandlerFields \ {RoutedTo(type)} : h[f] = hist.before[f]
              /\ (hist.op = "Validate") => hist.ret.handler = RoutedTo(type)
              /\ (/\ RoutedTo(type) \in {"beacons", "polls", "whitelist"}
                  /\ \/ hist.op = "Revert"
                     \/ hist.op = "Apply" /\ hist.ctx.c.m_action # "UNKNOWN")
                    => /\ Len(h[RoutedTo(type)])
                             = Len(hist.before[RoutedTo(type)]) + 1
                       /\ h[RoutedTo(type)][Len(h[RoutedTo(type)])].arg = hist.ctx
    /\ \A ctx \in AllContexts :
          LET applied  == Dispatcher_Apply(h, ctx)
              reverted == Dispatcher_Revert(h, ctx)
          IN  /\ \A f \in HandlerFields \ {RoutedTo(ctx.c.m_type)} :
                    applied[f] = h[f] /\ reverted[f] = h[f]
              /\ \A answer \in BOOLEAN :
                    Dispatcher_Validate(ctx.c, answer).handler
                        = RoutedTo(ctx.c.m_type)

\* A VOTE contract was applied: the poll registry, which holds nothing
\* else, received it, and the store holds an entry that did not change.
C21_Witness ==
    /\ hist.op = "Apply"
    /\ hist.ctx.c.m_type = "VOTE"
    /\ Len(h.polls) = 1 /\ h.polls[1].arg = hist.ctx
    /\ h.beacons = <<>> /\ h.whitelist = <<>>
    /\ h.store = hist.before.store
    /\ h.store["SCRAPER"] # {}

\* The section named by a type of the legacy bridging handler.
SectionOf(type) == IF type = "PROTOCOL" THEN "PROTOCOL" ELSE "SCRAPER"

\* The store with (section of the type, legacy key) -> (legacy value,
\* transaction time) written, and with that entry removed: every other
\* section and key as it was.
StoreWritten(store, ctx) ==
    [section \in Sections |->
        IF section = SectionOf(ctx.c.m_type)
        THEN {e \in store[section] : e.key # ctx.c.m_body.m_key}
                \cup {[key |-> ctx.c.m_body.m_key, value |-> ctx.c.m_body.m_value,
                       timestamp |-> ctx.nTime]}
        ELSE store[section]]

StoreRemoved(store, ctx) ==
    [section \in Sections |->
        IF section = SectionOf(ctx.c.m_type)
        THEN {e \in store[section] : e.key # ctx.c.m_body.m_key}
        ELSE store[section]]

\* The handler state after one call op(ctx) of the handler of the type.
AfterCall(hs, op, ctx) ==
    CASE RoutedTo(ctx.c.m_type) = "unknown" -> hs
      [] RoutedTo(ctx.c.m_type) = "store" ->
            [hs EXCEPT !.store = IF op = "Add" THEN StoreWritten(@, ctx)
                                 ELSE StoreRemoved(@, ctx)]
      [] OTHER ->
            [hs EXCEPT ![RoutedTo(ctx.c.m_type)] =
                Append(@, [op |-> op, arg |-> ctx])]

\* Dispatcher.Apply(ctx) as the claim has it.
AfterApply(hs, ctx) ==
    CASE ctx.c.m_action = "ADD"    -> AfterCall(hs, "Add", ctx)
      [] ctx.c.m_action = "REMOVE" -> AfterCall(hs, "Delete", ctx)
      [] OTHER                     -> hs

\* C22: Dispatcher.Apply(ctx) makes one handler call, Add on the routed
\* handler for ADD and Delete on the routed handler for REMOVE; for another
\* action it makes none and all handler state is unchanged.
C22_ApplyOneCall ==
    /\ hist.op = "Apply" => h = AfterApply(hist.before, hist.ctx)
    /\ \A ctx \in AllContexts : Dispatcher_Apply(h, ctx) = AfterApply(h, ctx)

\* A BEACON REMOVE contract was applied: the beacon registry received one
\* Delete, and the store holds what it held.
C22_Witness ==
    /\ hist.op = "Apply"
    /\ hist.ctx.c.m_type = "BEACON"
    /\ hist.ctx.c.m_action = "REMOVE"
    /\ h.beacons = <<[op |-> "Delete", arg |-> hist.ctx]>>
    /\ h.store = hist.before.store
    /\ h.store["PROTOCOL"] # {}

\* Contexts of the legacy bridging handler that address a key the store does
\* not hold: every action, both versions.
LegacyContexts ==
    {ContractContext(
         Contract(version, type, action, LegacyPayload(key, value),
                  NoSignature, "NONE"), nTime, 0) :
        version \in {1, CURRENT_VERSION}, type \in {"PROTOCOL", "SCRAPER"},
        action \in ContractActions, key \in {"o"}, value \in {"v"},
        nTime \in {2}}

\* The default Revert as the claim has it.
AfterRevert(hs, ctx) ==
    CASE ctx.c.m_action = "ADD"    -> AfterCall(hs, "Delete", ctx)
      [] ctx.c.m_action = "REMOVE" -> AfterCall(hs, "Add", ctx)
      [] OTHER                     -> hs

\* C23: Add of the legacy bridging handler writes (section of the type,
\* legacy key) -> (legacy value, transaction time), Delete removes that
\* entry, and every other section and key is unchanged; its Revert is
\* Delete for an ADD contract, Add for a REMOVE contract and nothing for
\* another action.
C23_LegacyHandlerFrame ==
    /\ (hist.op \in {"Apply", "Revert"} /\ RoutedTo(hist.ctx.c.m_type) = "store") =>
          h = IF hist.op = "Apply" THEN AfterApply(hist.before, hist.ctx)
              ELSE AfterRevert(hist.before, hist.ctx)
    /\ \A ctx \in LegacyContexts :
          /\ AppCacheContractHandler_Add(h, ctx) = AfterCall(h, "Add", ctx)
          /\ AppCacheContractHandler_Delete(h, ctx) = AfterCall(h, "Delete", ctx)
          /\ Dispatcher_Revert(h, ctx) = AfterRevert(h, ctx)

\* A SCRAPER REMOVE contract was reverted: its entry is written with the
\* time of the transaction, the PROTOCOL section holds what it held.
C23_Witness ==
    /\ hist.op = "Revert"
    /\ hist.ctx.c.m_type = "SCRAPER"
    /\ hist.ctx.c.m_action = "REMOVE"
    /\ hist.ctx.nTime = 2
    /\ hist.before.store["SCRAPER"] = {}
    /\ h.store["SCRAPER"] = {[key |-> "k", value |-> "v", timestamp |-> 2]}
    /\ h.store["PROTOCOL"] = {[key |-> "k", value |-> "w", timestamp |-> 1]}

-----------------------------------------------------------------------------
(* Claims about undoing a connected transaction, under SpecPipeline        *)

\* C24: every contract that RevertContracts(tx) passes to Dispatcher.Revert
\* is one that ApplyContracts(tx) passes to Dispatcher.Apply: a contract
\* that is skipped when its transaction is connected is not undone when it
\* is disconnected.
C24_RevertedWasApplied ==
    Reverted => \A k \in DOMAIN node.calls : Processed(node.calls[k].ctx.c)

\* The transaction was connected, its only contract skipped, and then
\* disconnected: the entry of the store that the contract addresses, written
\* by an earlier transaction, is gone.
C24_Witness ==
    /\ Reverted /\ hist.paired
    /\ hist.arg.contracts = <<cProtocolNoValue>>
    /\ hist.before = hist.pre
    /\ [key |-> "k", value |-> "v", timestamp |-> 0] \in hist.pre.h.store["PROTOCOL"]
    /\ node.calls = CallsFor("Revert", <<cProtocolNoValue>>, 1)
    /\ \A e \in node.h.store["PROTOCOL"] : e.key # "k"

\* C25: ApplyContracts(tx) followed by RevertContracts(tx) leaves the
\* PROTOCOL and SCRAPER sections as they were before ApplyContracts(tx).
C25_ConnectDisconnectRestores ==
    (Reverted /\ hist.paired) => node.h.store = hist.pre.h.store

\* A transaction that adds and then removes one key was connected to an
\* empty store and disconnected: the store holds an entry for the key.
C25_Witness ==
    /\ Reverted /\ hist.paired
    /\ hist.arg.contracts = <<cProtocolAdd, cProtocolRemove>>
    /\ hist.pre.h.store = EmptyStore
    /\ hist.before.h.store = EmptyStore
    /\ node.h.store["PROTOCOL"] = {[key |-> "k", value |-> "", timestamp |-> 1]}

-----------------------------------------------------------------------------
(* Claims about what a version 1 signature authorizes, under SpecContract  *)

\* The contract with the other of the two actions ADD and REMOVE.
OtherAction(c) ==
    [c EXCEPT !.m_action = IF @ = "ADD" THEN "REMOVE" ELSE "ADD"]

\* A version 1 contract of one of the types with action ADD or REMOVE.
LegacyOf(types) ==
    /\ contract.m_version = 1
    /\ contract.m_type \in types
    /\ contract.m_action \in {"ADD", "REMOVE"}

\* C26 as stated: for BEACON, POLL, VOTE, PROJECT, PROTOCOL and SCRAPER, a
\* version 1 contract and the contract with the same type, key, value and
\* signature and the other action do not both pass Validate().
C26_SignatureBindsAction ==
    LegacyOf({"BEACON", "POLL", "VOTE", "PROJECT", "PROTOCOL", "SCRAPER"}) =>
        ~(Contract_Validate(contract) /\ Contract_Validate(OtherAction(contract)))

\* C26 (amended): for BEACON, POLL and VOTE a version 1 contract and the
\* contract with the other action do not both pass Validate(); for PROJECT,
\* PROTOCOL and SCRAPER a version 1 contract with a value passes Validate()
\* exactly when the contract with the other action does.
C26_SignatureBindsActionByKey ==
    /\ LegacyOf({"BEACON", "POLL", "VOTE"}) =>
          /\ ~(Contract_Validate(contract) /\ Contract_Validate(OtherAction(contract)))
          /\ (ret.op = "Validate" /\ ret.ok)
                => ~Contract_Validate(OtherAction(contract))
    /\ (LegacyOf({"PROJECT", "PROTOCOL", "SCRAPER"}) /\ contract.m_body.m_value # "") =>
          Contract_Validate(contract) = Contract_Validate(OtherAction(contract))

\* A version 1 POLL REMOVE contract signed with the master key has passed
\* Validate(); as an ADD it needs the message key.
C26_Witness ==
    /\ LegacyOf({"POLL"})
    /\ contract.m_action = "REMOVE"
    /\ contract.m_signature.signer = MasterPublicKey
    /\ ret.op = "Validate" /\ ret.ok
    /\ Contract_ResolvePublicKey(OtherAction(contract)) = MessagePublicKey
    /\ ~Contract_Validate(OtherAction(contract))


-----------------------------------------------------------------------------
(* Claims about the block a replay activates beacons from, under           *)
(* SpecReplay                                                              *)

\* The ActivatePending calls the beacon registry of a node has received.
ActivationsOf(n) ==
    SelectSeq(node[n].h.beacons, LAMBDA call : call.op = "ActivatePending")

\* The chain positions the replay of a node has finished visiting.
VisitedBy(n) ==
    {i \in 1..Len(chain) :
        /\ rp[n].start <= i
        /\ rp[n].pindex = 0 \/ i < rp[n].pindex}

\* The block at position i has to be read by the replay.
NeedsRead(i) ==
    \/ chain[i].nIsContract = 1
    \/ chain[i].nIsSuperBlock = 1 /\ chain[i].nVersion >= 11

\* C27: during ReplayContracts every beacon activation is made while its
\* block is the one being visited, with the verified beacons and the block
\* time of that block, and only when that block was read from disk; a block
\* that cannot be read gets no contract application and no activation; and
\* the replay goes on to visit every following block.
C27_ActivationFromVisitedBlock ==
    \A n \in Nodes :
        (rp[n].pc \in {"loop", "done"} /\ ~rp[n].aborted) =>
            LET trace == rp[n].trace
                evs   == SelectSeq(trace, LAMBDA e : e.ev = "ActivatePending")
                acts  == ActivationsOf(n)
            IN  /\ Len(acts) = Len(evs)
                /\ \A k \in 1..Len(evs) :
                      LET i == PositionOf(evs[k].height)
                      IN  /\ i \in VisitedBy(n)
                          /\ chain[i].disk = "ok"
                          /\ acts[k].arg =
                                [verified |-> chain[i].data.verified,
                                 nTime |-> chain[i].nTime]
                /\ \A k \in EventsOf(trace, "ActivatePending") :
                      \E v \in EventsOf(trace, "Visit") :
                          /\ v < k
                          /\ trace[v].height = trace[k].height
                          /\ \A w \in EventsOf(trace, "Visit") : w <= v \/ w > k
                /\ \A i \in VisitedBy(n) :
                      /\ Event("Visit", chain[i].nHeight)
                             \in {trace[k] : k \in 1..Len(trace)}
                      /\ chain[i].disk # "ok" =>
                            \A k \in 1..Len(trace) :
                                trace[k].height = chain[i].nHeight
                                    => trace[k].ev = "Visit"
                /\ rp[n].pc = "done" => VisitedBy(n) = rp[n].start..Len(chain)

\* A completed replay met a block it could not read and went on to a
\* superblock without contracts, which it read in the superblock part and
\* activated with that block's own data.
C27_Witness ==
    /\ Completed(1)
    /\ \E i, j \in VisitedBy(1) :
          /\ i < j
          /\ chain[i].disk # "ok" /\ NeedsRead(i)
          /\ chain[j].nIsContract = 0
          /\ Event("ActivatePending", chain[j].nHeight)
                 \in {rp[1].trace[k] : k \in 1..Len(rp[1].trace)}
          /\ ActivationsOf(1) =
                <<[op |-> "ActivatePending",
                   arg |-> [verified |-> chain[j].data.verified,
                            nTime |-> chain[j].nTime]]>>
          /\ chain[j].data.verified # {}

====
